---- MODULE Spec2Model ----
(***************************************************************************)
(* web_ical: the line-oriented iCalendar parser (parse_cal / parse_event), *)
(* the date-time converter and the serializer (Calendar::export_to) of     *)
(* src/src/lib.rs.                                                         *)
(*                                                                         *)
(* Text is a sequence of one-character strings, so that read_line, pop,    *)
(* split_once, split and the numeric conversions are computed character by *)
(* character as the code computes them.                                    *)
(***************************************************************************)
EXTENDS Integers, Sequences, FiniteSets, TLC

(***************************************************************************)
(* Option<T>: None is the empty sequence, Some(v) the one-element sequence. *)
(***************************************************************************)
None == <<>>
Some(v) == <<v>>
IsSome(o) == Len(o) = 1
Unwrap(o) == o[1]

(***************************************************************************)
(* Characters and string primitives of the standard library.               *)
(***************************************************************************)
CR == "\r"
LF == "\n"
CRLF == <<CR, LF>>

Digits == <<"0", "1", "2", "3", "4", "5", "6", "7", "8", "9">>
IsDigit(c) == \E i \in 1..10 : Digits[i] = c
DigitVal(c) == (CHOOSE i \in 1..10 : Digits[i] = c) - 1

\* Index of the first occurrence of character c in s at or after index from;
\* 0 when there is none.
IndexFrom(s, c, from) ==
    LET hits == {i \in from..Len(s) : s[i] = c}
    IN  IF hits = {} THEN 0 ELSE CHOOSE i \in hits : \A j \in hits : i <= j

\* s[from..] (1-based, inclusive), the empty string when from is past the end.
Suffix(s, from) == SubSeq(s, from, Len(s))

\* str::starts_with
starts_with(s, p) == Len(s) >= Len(p) /\ SubSeq(s, 1, Len(p)) = p

\* String::pop: removes the last character, if any.
pop(buf) == IF Len(buf) = 0 THEN buf ELSE SubSeq(buf, 1, Len(buf) - 1)

\* str::split_once on the colon: None, or Some(<<key, value>>) around the first one.
split_once(buf) ==
    LET i == IndexFrom(buf, ":", 1)
    IN  IF i = 0 THEN None
        ELSE Some(<<SubSeq(buf, 1, i - 1), Suffix(buf, i + 1)>>)

\* str::split on the semicolon: the sequence of components; never empty.
RECURSIVE split_semi(_)
split_semi(s) ==
    LET i == IndexFrom(s, ";", 1)
    IN  IF i = 0 THEN <<s>>
        ELSE <<SubSeq(s, 1, i - 1)>> \o split_semi(Suffix(s, i + 1))

\* BufRead::read_line on a Cursor at byte offset pos: the bytes up to and
\* including the next LF, or up to the end of the text; empty at the end.
read_line(raw, pos) ==
    LET nl == IndexFrom(raw, LF, pos + 1)
    IN  IF pos >= Len(raw) THEN <<>>
        ELSE IF nl = 0 THEN Suffix(raw, pos + 1)
        ELSE SubSeq(raw, pos + 1, nl)

\* The decimal value of a string of digits.
RECURSIVE DecVal(_)
DecVal(ds) ==
    IF Len(ds) = 0 THEN 0
    ELSE 10 * DecVal(SubSeq(ds, 1, Len(ds) - 1)) + DigitVal(ds[Len(ds)])

AllDigits(s) == \A i \in 1..Len(s) : IsDigit(s[i])

\* s without its leading zero characters.
RECURSIVE StripZeros(_)
StripZeros(s) == IF Len(s) > 0 /\ s[1] = "0" THEN StripZeros(Tail(s)) ELSE s

\* a <= b for digit strings of equal length.
DigitsLeq(a, b) ==
    \/ a = b
    \/ \E i \in 1..Len(a) :
          /\ DigitVal(a[i]) < DigitVal(b[i])
          /\ \A j \in 1..(i - 1) : a[j] = b[j]

\* u32::MAX = 4294967295, as its decimal digits.
U32MaxDigits == <<"4", "2", "9", "4", "9", "6", "7", "2", "9", "5">>

\* str::parse::<u32>: an optional plus sign, then one or more digits, the value
\* at most u32::MAX.  [ok, val].
parse_u32(value) ==
    LET ds == IF Len(value) > 0 /\ value[1] = "+" THEN Tail(value) ELSE value
        sig == StripZeros(ds)
    IN  IF Len(ds) = 0 \/ ~AllDigits(ds) THEN [ok |-> FALSE, val |-> 0]
        ELSE IF Len(sig) > Len(U32MaxDigits) THEN [ok |-> FALSE, val |-> 0]
        ELSE IF Len(sig) = Len(U32MaxDigits) /\ ~DigitsLeq(sig, U32MaxDigits)
             THEN [ok |-> FALSE, val |-> 0]
        ELSE [ok |-> TRUE, val |-> DecVal(sig)]

\* u32::to_string
RECURSIVE u32_to_string(_)
u32_to_string(n) ==
    IF n < 10 THEN <<Digits[n + 1]>>
    ELSE u32_to_string(n \div 10) \o <<Digits[(n % 10) + 1]>>

(***************************************************************************)
(* chrono: NaiveDateTime::parse_from_str and DateTime::format for the two  *)
(* format strings the program uses.  A format is its sequence of items: a  *)
(* numeric item (field, maximal width) or a literal character.             *)
(***************************************************************************)
NumItem(f, w) == [num |-> TRUE, f |-> f, w |-> w, ch |-> ""]
LitItem(c) == [num |-> FALSE, f |-> "", w |-> 0, ch |-> c]

\* "%Y%m%dT%H%M%S", the format of every convert_datetime call.
FmtParse ==
    <<NumItem("year", 4), NumItem("month", 2), NumItem("day", 2), LitItem("T"),
      NumItem("hour", 2), NumItem("minute", 2), NumItem("second", 2)>>

\* "%Y%m%dT%H%M%SZ", the format of the serializer.
FmtExport == FmtParse \o <<LitItem("Z")>>

IsSpace(c) == c \in {" ", "\t", CR, LF}

RECURSIVE trim_start(_)
trim_start(s) == IF Len(s) > 0 /\ IsSpace(s[1]) THEN trim_start(Tail(s)) ELSE s

\* The number of leading digits of s, at most w.
RECURSIVE LeadingDigits(_, _)
LeadingDigits(s, w) ==
    IF w = 0 \/ Len(s) = 0 \/ ~IsDigit(s[1]) THEN 0
    ELSE 1 + LeadingDigits(Tail(s), w - 1)

Unparsed ==
    [year |-> -1, month |-> -1, day |-> -1, hour |-> -1, minute |-> -1, second |-> -1]

\* format::parse: consumes the items in order; a numeric item skips leading
\* white space and takes 1..w digits; input left over after the last item is
\* an error (TooLong).  [ok, val].
RECURSIVE parse_items(_, _, _)
parse_items(s, items, parsed) ==
    IF Len(items) = 0
    THEN [ok |-> Len(s) = 0, val |-> parsed]
    ELSE LET it == Head(items)
         IN  IF it.num
             THEN LET t == trim_start(s)
                      n == LeadingDigits(t, it.w)
                  IN  IF n = 0 THEN [ok |-> FALSE, val |-> parsed]
                      ELSE parse_items(Suffix(t, n + 1), Tail(items),
                                       [parsed EXCEPT ![it.f] = DecVal(SubSeq(t, 1, n))])
             ELSE IF Len(s) > 0 /\ s[1] = it.ch
                  THEN parse_items(Tail(s), Tail(items), parsed)
                  ELSE [ok |-> FALSE, val |-> parsed]

IsLeap(y) == (y % 4 = 0 /\ y % 100 # 0) \/ y % 400 = 0

DaysIn(y, m) ==
    IF m = 2 THEN (IF IsLeap(y) THEN 29 ELSE 28)
    ELSE IF m \in {4, 6, 9, 11} THEN 30 ELSE 31

\* Parsed::to_naive_datetime_with_offset: every field set and in range
\* (second 60 is accepted as a leap second).
ValidDateTime(p) ==
    /\ p.year >= 0
    /\ p.month \in 1..12
    /\ p.day >= 1 /\ p.day <= DaysIn(p.year, p.month)
    /\ p.hour \in 0..23
    /\ p.minute \in 0..59
    /\ p.second \in 0..60

\* convert_datetime(value, format): Ok(instant) or Err.  [ok, val].
convert_datetime(value, format) ==
    LET r == parse_items(value, format, Unparsed)
    IN  IF r.ok /\ ValidDateTime(r.val) THEN [ok |-> TRUE, val |-> r.val]
        ELSE [ok |-> FALSE, val |-> Unparsed]

\* n in decimal, zero-padded to w digits.
RECURSIVE Pad(_, _)
Pad(n, w) == IF w = 0 THEN <<>> ELSE Pad(n \div 10, w - 1) \o <<Digits[(n % 10) + 1]>>

\* DateTime::format(items).to_string()
RECURSIVE format_datetime(_, _)
format_datetime(dt, items) ==
    IF Len(items) = 0 THEN <<>>
    ELSE LET it == Head(items)
         IN  (IF it.num THEN Pad(dt[it.f], it.w) ELSE <<it.ch>>)
             \o format_datetime(dt, Tail(items))

(***************************************************************************)
(* The string literals of the parser and the serializer.                   *)
(***************************************************************************)
K_NAME == <<"N", "A", "M", "E">>
K_PRODID == <<"P", "R", "O", "D", "I", "D">>
K_VERSION == <<"V", "E", "R", "S", "I", "O", "N">>
K_CALSCALE == <<"C", "A", "L", "S", "C", "A", "L", "E">>
K_METHOD == <<"M", "E", "T", "H", "O", "D">>
K_X_WR_CALNAME == <<"X", "-", "W", "R", "-", "C", "A", "L", "N", "A", "M", "E">>
K_X_WR_TIMEZONE == <<"X", "-", "W", "R", "-", "T", "I", "M", "E", "Z", "O", "N", "E">>
K_BEGIN == <<"B", "E", "G", "I", "N">>
K_CLASS == <<"C", "L", "A", "S", "S">>
K_GEO == <<"G", "E", "O">>
K_PRIORITY == <<"P", "R", "I", "O", "R", "I", "T", "Y">>
K_RECUR_ID == <<"R", "E", "C", "U", "R", "-", "I", "D">>
K_URL == <<"U", "R", "L">>
K_UID == <<"U", "I", "D">>
K_DESCRIPTION == <<"D", "E", "S", "C", "R", "I", "P", "T", "I", "O", "N">>
K_LOCATION == <<"L", "O", "C", "A", "T", "I", "O", "N">>
K_SEQUENCE == <<"S", "E", "Q", "U", "E", "N", "C", "E">>
K_STATUS == <<"S", "T", "A", "T", "U", "S">>
K_SUMMARY == <<"S", "U", "M", "M", "A", "R", "Y">>
K_TRANSP == <<"T", "R", "A", "N", "S", "P">>
K_ORGANIZER == <<"O", "R", "G", "A", "N", "I", "Z", "E", "R">>
K_RRULE == <<"R", "R", "U", "L", "E">>
K_DTSTART == <<"D", "T", "S", "T", "A", "R", "T">>
K_DTEND == <<"D", "T", "E", "N", "D">>
K_DTSTAMP == <<"D", "T", "S", "T", "A", "M", "P">>
K_CREATED == <<"C", "R", "E", "A", "T", "E", "D">>
K_LAST_MODIFIED == <<"L", "A", "S", "T", "-", "M", "O", "D", "I", "F", "I", "E", "D">>
K_END == <<"E", "N", "D">>
VCALENDAR == <<"V", "C", "A", "L", "E", "N", "D", "A", "R">>
VEVENT == <<"V", "E", "V", "E", "N", "T">>
FREQ_EQ == <<"F", "R", "E", "Q", "=">>
UNTIL_EQ == <<"U", "N", "T", "I", "L", "=">>

\* "KEY:VALUE"
KV(key, value) == key \o <<":">> \o value

BEGIN_VCALENDAR == KV(K_BEGIN, VCALENDAR)
END_VCALENDAR == KV(K_END, VCALENDAR)
BEGIN_VEVENT == KV(K_BEGIN, VEVENT)
END_VEVENT == KV(K_END, VEVENT)

(***************************************************************************)
(* The data model: Event, Repeat, Calendar and the locals of parse_cal.    *)
(***************************************************************************)
\* Event::empty()
empty ==
    [dtstart |-> None, dtend |-> None, dtstamp |-> None, uid |-> None,
     created |-> None, description |-> None, last_modified |-> None,
     location |-> None, organizer |-> None, sequence |-> None,
     status |-> None, summary |-> None, transp |-> None, repeat |-> None,
     class |-> None, geo |-> None, priority |-> None, recur_id |-> None,
     url |-> None]

Repeat(freq, until) == [freq |-> freq, until |-> until]

\* The locals of parse_cal before its loop: every header field unset, no event.
NewBuilder ==
    [prodid |-> None, version |-> None, calscale |-> None, method |-> None,
     name |-> None, x_wr_calname |-> None, x_wr_timezone |-> None,
     events |-> <<>>]

\* The Calendar built at END:VCALENDAR from the locals b (prodid and version set).
Calendar(b) ==
    [name |-> b.name, prodid |-> Unwrap(b.prodid), version |-> Unwrap(b.version),
     calscale |-> b.calscale, method |-> b.method,
     x_wr_calname |-> b.x_wr_calname, x_wr_timezone |-> b.x_wr_timezone,
     events |-> b.events]

\* What a call returns: still running, Ok(calendar), Err(error), or a panic
\* that unwinds out of the call.
Pending == [tag |-> "Pending", cal |-> None, msg |-> ""]
Ok(c) == [tag |-> "Ok", cal |-> Some(c), msg |-> ""]
Err(m) == [tag |-> "Err", cal |-> None, msg |-> m]
Panic(m) == [tag |-> "Panic", cal |-> None, msg |-> m]

(***************************************************************************)
(* parse_event: the match on the bare key of one record.  Returns the      *)
(* accumulator and the panic message, "" when the arm does not panic.      *)
(***************************************************************************)
Assigned(e) == [ev |-> e, panic |-> ""]

\* assign_if_ok with the bug of clearing the field when the decode fails.
assign_or_clear(ev, field, r) ==
    [ev EXCEPT ![field] = IF r.ok THEN Some(r.val) ELSE None]

\* The arms that convert a date-time and leave the field alone on failure.
assign_if_ok(ev, field, r) ==
    IF r.ok THEN [ev EXCEPT ![field] = Some(r.val)] ELSE ev

\* The "RRULE" arm.
rrule_arm(ev, value) ==
    LET vals == split_semi(value)
        first == vals[1]
    IN  IF ~starts_with(first, FREQ_EQ) THEN Assigned(ev)
        ELSE LET freq == Suffix(first, Len(FREQ_EQ) + 1)
             IN  IF Len(vals) >= 2 /\ starts_with(vals[2], UNTIL_EQ)
                 THEN \* the slice is taken of freq, the frequency token
                      IF Len(freq) < Len(UNTIL_EQ)
                      THEN [ev |-> ev, panic |-> "byte index out of bounds"]
                      ELSE LET r == convert_datetime(Suffix(freq, Len(UNTIL_EQ) + 1), FmtParse)
                           IN  Assigned([ev EXCEPT !.repeat =
                                   Some(Repeat(freq, IF r.ok THEN Some(r.val) ELSE None))])
                 ELSE Assigned([ev EXCEPT !.repeat = Some(Repeat(freq, None))])

\* The "SEQUENCE" arm: value.parse::<u32>().unwrap()
sequence_arm(ev, value) ==
    LET r == parse_u32(value)
    IN  IF r.ok THEN Assigned([ev EXCEPT !.sequence = Some(r.val)])
        ELSE [ev |-> ev, panic |-> "called Result::unwrap() on an Err value"]

event_match(ev, key, value) ==
    CASE key = K_CLASS -> Assigned([ev EXCEPT !.class = Some(value)])
      [] key = K_GEO -> Assigned([ev EXCEPT !.geo = Some(value)])
      [] key = K_PRIORITY -> Assigned([ev EXCEPT !.priority = Some(value)])
      [] key = K_RECUR_ID -> Assigned([ev EXCEPT !.recur_id = Some(value)])
      [] key = K_URL -> Assigned([ev EXCEPT !.url = Some(value)])
      [] key = K_UID -> Assigned([ev EXCEPT !.uid = Some(value)])
      [] key = K_DESCRIPTION -> Assigned([ev EXCEPT !.description = Some(value)])
      [] key = K_LOCATION -> Assigned([ev EXCEPT !.location = Some(value)])
      [] key = K_SEQUENCE -> sequence_arm(ev, value)
      [] key = K_STATUS -> Assigned([ev EXCEPT !.status = Some(value)])
      [] key = K_SUMMARY -> Assigned([ev EXCEPT !.summary = Some(value)])
      [] key = K_TRANSP -> Assigned([ev EXCEPT !.transp = Some(value)])
      [] key = K_ORGANIZER -> Assigned([ev EXCEPT !.organizer = Some(value)])
      [] key = K_RRULE -> rrule_arm(ev, value)
      [] key = K_DTSTART ->
            Assigned(assign_if_ok(ev, "dtstart", convert_datetime(value, FmtParse)))
      [] key = K_DTEND ->
            Assigned(assign_if_ok(ev, "dtend", convert_datetime(value, FmtParse)))
      [] key = K_DTSTAMP ->
            Assigned(assign_if_ok(ev, "dtstamp", convert_datetime(value, FmtParse)))
      [] key = K_CREATED ->
            Assigned(assign_if_ok(ev, "created", convert_datetime(value, FmtParse)))
      [] key = K_LAST_MODIFIED ->
            Assigned(assign_if_ok(ev, "last_modified", convert_datetime(value, FmtParse)))
      [] OTHER -> Assigned(ev)

\* key.split(;).next().unwrap_or(key): the key without its parameters.
bare_key(key) == Head(split_semi(key))

(***************************************************************************)
(* The parser as a step function on its state                              *)
(*   s = [pc, pos, cal, ev, result]                                        *)
(* pc: "Start" before the first read, "InCalendar" in the loop of          *)
(* parse_cal, "InEvent" in the loop of parse_event, then "Done" (Ok        *)
(* returned), "Error" (Err returned) or "Abort" (panic).                   *)
(***************************************************************************)
ParseStart == [pc |-> "Start", pos |-> 0, cal |-> NewBuilder, ev |-> empty,
               result |-> Pending]

Abort(s, m) == [s EXCEPT !.pc = "Abort", !.result = Panic(m)]
Fail(s, m) == [s EXCEPT !.pc = "Error", !.result = Err(m)]

\* parse_cal, lines 186-200: the first read and the assert_eq! on it.
parse_cal_first(raw, s) ==
    LET buf == read_line(raw, s.pos)
        t == [s EXCEPT !.pos = s.pos + Len(buf)]
    IN  IF buf = BEGIN_VCALENDAR \o CRLF
        THEN [t EXCEPT !.pc = "InCalendar"]
        ELSE Abort(t, "assertion failed: buf == BEGIN:VCALENDAR")

\* The match on the key of one calendar-level record (the key is not
\* stripped of parameters here).
cal_match(s, key, value) ==
    CASE key = K_NAME -> [s EXCEPT !.cal.name = Some(value)]
      [] key = K_PRODID ->
            IF IsSome(s.cal.prodid) THEN Abort(s, "assertion failed: prodid.is_none()")
            ELSE [s EXCEPT !.cal.prodid = Some(value)]
      [] key = K_VERSION ->
            IF IsSome(s.cal.version) THEN Abort(s, "assertion failed: version.is_none()")
            ELSE [s EXCEPT !.cal.version = Some(value)]
      [] key = K_CALSCALE -> [s EXCEPT !.cal.calscale = Some(value)]
      [] key = K_METHOD -> [s EXCEPT !.cal.method = Some(value)]
      [] key = K_X_WR_CALNAME -> [s EXCEPT !.cal.x_wr_calname = Some(value)]
      [] key = K_X_WR_TIMEZONE -> [s EXCEPT !.cal.x_wr_timezone = Some(value)]
      [] key = K_BEGIN ->
            IF value = VEVENT
            THEN \* the call of parse_event: a fresh accumulator
                 [s EXCEPT !.pc = "InEvent", !.ev = empty]
            ELSE s
      [] OTHER -> s

\* bad_line with the bug of treating a line without a colon as fatal.
bad_line_fatal(t) == [t EXCEPT !.pc = "Error", !.result = [tag |-> "Err", cal |-> <<>>, msg |-> "bad line"]]

\* push with the bug of inserting at the front.
push_front(events, e) == <<e>> \o events

\* push with the bug of appending the event twice.
push_twice(events, e) == events \o <<e, e>>

\* The else branch of the let on split_once: the line is printed and the
\* loop continues with the next record.
bad_line(t) == t

\* events.push(e)
push(events, e) == Append(events, e)

\* The Ok(Calendar {..}) of line 214, with its two expect calls.
finish_cal(s) ==
    IF ~IsSome(s.cal.prodid) THEN Abort(s, "a calendar needs a prodid")
    ELSE IF ~IsSome(s.cal.version) THEN Abort(s, "a calendar needs a version")
    ELSE [s EXCEPT !.pc = "Done", !.result = Ok(Calendar(s.cal))]

\* parse_cal_step with an error when the cursor has more data after
\* END:VCALENDAR.
parse_cal_step_strict(raw, s) ==
    LET line == read_line(raw, s.pos)
        buf == pop(line)
        t == [s EXCEPT !.pos = s.pos + Len(line)]
        kv == split_once(buf)
    IN  IF Len(line) = 0 THEN Fail(s, "UnexpectedEof")
        ELSE IF buf = END_VCALENDAR
             THEN IF t.pos < Len(raw) THEN Fail(t, "trailing data") ELSE finish_cal(t)
        ELSE IF ~IsSome(kv) THEN bad_line(t)
        ELSE cal_match(t, Unwrap(kv)[1], Unwrap(kv)[2])

\* One iteration of the loop of parse_cal.
parse_cal_step(raw, s) ==
    LET line == read_line(raw, s.pos)
        buf == pop(line)
        t == [s EXCEPT !.pos = s.pos + Len(line)]
        kv == split_once(buf)
    IN  IF Len(line) = 0 THEN Fail(s, "UnexpectedEof")
        ELSE IF buf = END_VCALENDAR THEN finish_cal(t)
        ELSE IF ~IsSome(kv) THEN bad_line(t)
        ELSE cal_match(t, Unwrap(kv)[1], Unwrap(kv)[2])

\* parse_event_step with the bug of finishing the calendar at an
\* END:VCALENDAR read inside an event.
parse_event_step_leaky(raw, s) ==
    LET line == read_line(raw, s.pos)
        buf == pop(line)
        t == [s EXCEPT !.pos = s.pos + Len(line)]
        kv == split_once(buf)
    IN  IF Len(line) = 0 THEN Fail(s, "UnexpectedEof")
        ELSE IF buf = END_VEVENT
             THEN [t EXCEPT !.pc = "InCalendar",
                            !.cal.events = push(s.cal.events, s.ev)]
        ELSE IF buf = END_VCALENDAR THEN finish_cal(t)
        ELSE IF ~IsSome(kv) THEN bad_line(t)
        ELSE LET r == event_match(t.ev, bare_key(Unwrap(kv)[1]), Unwrap(kv)[2])
             IN  IF r.panic # "" THEN Abort(t, r.panic)
                 ELSE [t EXCEPT !.ev = r.ev]

\* One iteration of the loop of parse_event; at END:VEVENT the caller
\* pushes the returned event (line 257).
parse_event_step(raw, s) ==
    LET line == read_line(raw, s.pos)
        buf == pop(line)
        t == [s EXCEPT !.pos = s.pos + Len(line)]
        kv == split_once(buf)
    IN  IF Len(line) = 0 THEN Fail(s, "UnexpectedEof")
        ELSE IF buf = END_VEVENT
             THEN [t EXCEPT !.pc = "InCalendar",
                            !.cal.events = push(s.cal.events, s.ev)]
        ELSE IF ~IsSome(kv) THEN bad_line(t)
        ELSE LET r == event_match(t.ev, bare_key(Unwrap(kv)[1]), Unwrap(kv)[2])
             IN  IF r.panic # "" THEN Abort(t, r.panic)
                 ELSE [t EXCEPT !.ev = r.ev]

Running(s) == s.pc \in {"Start", "InCalendar", "InEvent"}

parse_step(raw, s) ==
    CASE s.pc = "Start" -> parse_cal_first(raw, s)
      [] s.pc = "InCalendar" -> parse_cal_step(raw, s)
      [] s.pc = "InEvent" -> parse_event_step(raw, s)
      [] OTHER -> s

\* Calendar::new_from_data(data) = parse_cal(data): the steps run to the end.
RECURSIVE parse_run(_, _)
parse_run(raw, s) == IF Running(s) THEN parse_run(raw, parse_step(raw, s)) ELSE s

new_from_data(data) == parse_run(data, ParseStart).result

(***************************************************************************)
(* Calendar::export_to: the bytes written to the writer, and the panic     *)
(* message when an unwrap meets an absent field ("" when none does).  The  *)
(* bytes written before a panic stay in the writer.                        *)
(***************************************************************************)
\* The fixed emission list of an event: key, field, and how it is printed.
Emission ==
    <<[key |-> K_DTSTART, field |-> "dtstart", kind |-> "datetime"],
      [key |-> K_DTEND, field |-> "dtend", kind |-> "datetime"],
      [key |-> K_DTSTAMP, field |-> "dtstamp", kind |-> "datetime"],
      [key |-> K_UID, field |-> "uid", kind |-> "string"],
      [key |-> K_CREATED, field |-> "created", kind |-> "datetime"],
      [key |-> K_DESCRIPTION, field |-> "description", kind |-> "string"],
      [key |-> K_LAST_MODIFIED, field |-> "last_modified", kind |-> "datetime"],
      [key |-> K_LOCATION, field |-> "location", kind |-> "string"],
      [key |-> K_SEQUENCE, field |-> "sequence", kind |-> "u32"],
      [key |-> K_STATUS, field |-> "status", kind |-> "string"],
      [key |-> K_SUMMARY, field |-> "summary", kind |-> "string"],
      [key |-> K_TRANSP, field |-> "transp", kind |-> "string"]>>

Display(kind, v) ==
    CASE kind = "datetime" -> format_datetime(v, FmtExport)
      [] kind = "u32" -> u32_to_string(v)
      [] OTHER -> v

Written(bytes) == [out |-> bytes, panic |-> ""]

\* The writes of one event from item i of the emission list on.
RECURSIVE export_fields(_, _, _)
export_fields(out, e, i) ==
    IF i > Len(Emission) THEN Written(out \o END_VEVENT \o CRLF)
    ELSE LET it == Emission[i]
         IN  IF ~IsSome(e[it.field])
             THEN [out |-> out, panic |-> "called Option::unwrap() on a None value"]
             ELSE export_fields(
                      out \o KV(it.key, Display(it.kind, Unwrap(e[it.field]))) \o CRLF,
                      e, i + 1)

\* The for loop over self.events, from event i on, then the last write.
RECURSIVE export_events(_, _, _)
export_events(out, events, i) ==
    IF i > Len(events) THEN Written(out \o END_VCALENDAR)
    ELSE LET w == export_fields(out \o BEGIN_VEVENT \o CRLF, events[i], 1)
         IN  IF w.panic # "" THEN w ELSE export_events(w.out, events, i + 1)

OptLine(key, o) == IF IsSome(o) THEN KV(key, Unwrap(o)) \o CRLF ELSE <<>>

\* export_to with the VERSION line written before the CALSCALE line.
export_to_version_first(c) ==
    export_events(
        BEGIN_VCALENDAR \o CRLF
        \o KV(K_PRODID, c.prodid) \o CRLF
        \o KV(K_VERSION, c.version) \o CRLF
        \o OptLine(K_CALSCALE, c.calscale)
        \o OptLine(K_METHOD, c.method)
        \o OptLine(K_X_WR_CALNAME, c.x_wr_calname)
        \o OptLine(K_X_WR_TIMEZONE, c.x_wr_timezone),
        c.events, 1)

export_to(c) ==
    export_events(
        BEGIN_VCALENDAR \o CRLF
        \o KV(K_PRODID, c.prodid) \o CRLF
        \o OptLine(K_CALSCALE, c.calscale)
        \o KV(K_VERSION, c.version) \o CRLF
        \o OptLine(K_METHOD, c.method)
        \o OptLine(K_X_WR_CALNAME, c.x_wr_calname)
        \o OptLine(K_X_WR_TIMEZONE, c.x_wr_timezone),
        c.events, 1)

\* SepLine with the bug of pushing the line break after the optional line.
SepLineAfter(key, o) == IF IsSome(o) THEN KV(key, Unwrap(o)) \o CRLF ELSE <<>>

\* export_ics builds the whole text in a String before it writes it.  Its
\* header pushes the line break before each optional line, not after it.
SepLine(key, o) == IF IsSome(o) THEN CRLF \o KV(key, Unwrap(o)) ELSE <<>>

EmissionIcs ==
    <<[key |-> K_DTSTART, field |-> "dtstart", kind |-> "datetime"],
      [key |-> K_DTEND, field |-> "dtend", kind |-> "datetime"],
      [key |-> K_DTSTAMP, field |-> "dtstamp", kind |-> "datetime"],
      [key |-> K_UID, field |-> "uid", kind |-> "string"],
      [key |-> K_CREATED, field |-> "created", kind |-> "datetime"],
      [key |-> K_DESCRIPTION, field |-> "description", kind |-> "string"],
      [key |-> K_LAST_MODIFIED, field |-> "last_modified", kind |-> "datetime"],
      [key |-> K_LOCATION, field |-> "location", kind |-> "string"],
      [key |-> K_SEQUENCE, field |-> "sequence", kind |-> "u32"],
      [key |-> K_STATUS, field |-> "status", kind |-> "string"],
      [key |-> K_SUMMARY, field |-> "summary", kind |-> "string"],
      [key |-> K_TRANSP, field |-> "transp", kind |-> "string"]>>

\* The pushes of one event from item i on.
RECURSIVE ics_fields(_, _, _)
ics_fields(data, e, i) ==
    IF i > Len(EmissionIcs) THEN Written(data \o END_VEVENT \o CRLF)
    ELSE LET it == EmissionIcs[i]
         IN  IF ~IsSome(e[it.field])
             THEN [out |-> data, panic |-> "called Option::unwrap() on a None value"]
             ELSE ics_fields(
                      data \o (it.key \o <<":">>) \o Display(it.kind, Unwrap(e[it.field]))
                           \o CRLF,
                      e, i + 1)

\* The for loop over self.events, from event i on, then the last push.
RECURSIVE ics_events(_, _, _)
ics_events(data, events, i) ==
    IF i > Len(events) THEN Written(data \o END_VCALENDAR)
    ELSE LET w == ics_fields(data \o BEGIN_VEVENT \o CRLF, events[i], 1)
         IN  IF w.panic # "" THEN w ELSE ics_events(w.out, events, i + 1)

\* The text export_ics hands to write_all, or the panic that ends it before.
export_ics(c) ==
    ics_events(
        BEGIN_VCALENDAR \o CRLF
        \o (K_PRODID \o <<":">>) \o c.prodid
        \o SepLine(K_CALSCALE, c.calscale)
        \o CRLF
        \o (K_VERSION \o <<":">>) \o c.version
        \o SepLine(K_METHOD, c.method)
        \o SepLine(K_X_WR_CALNAME, c.x_wr_calname)
        \o SepLine(K_X_WR_TIMEZONE, c.x_wr_timezone)
        \o CRLF,
        c.events, 1)

(***************************************************************************)
(* The inputs: records (lines without their terminator) and the texts made *)
(* of them, and the calendars handed to the serializer.                    *)
(***************************************************************************)
V_PRODID == <<"-", "/", "/", "T", "/", "/">>
V_VERSION == <<"2", ".", "0">>
V_1 == <<"1">>
V_2 == <<"2">>
V_3 == <<"3">>
V_X == <<"x">>
V_MINUS1 == <<"-", "1">>
V_2POW32 == <<"4", "2", "9", "4", "9", "6", "7", "2", "9", "6">>
V_TEST == <<"T", "e", "s", "t">>
V_STAMP_Z == <<"2", "0", "1", "9", "0", "5", "2", "2", "T", "2", "3", "2", "7", "0", "1", "Z">>
V_STAMP == <<"2", "0", "1", "9", "0", "5", "2", "2", "T", "2", "3", "2", "7", "0", "1">>
V_DATE == <<"2", "0", "2", "3", "0", "1", "0", "1">>
V_MIDNIGHT_Z == <<"2", "0", "2", "3", "0", "1", "0", "1", "T", "0", "0", "0", "0", "0", "0", "Z">>
V_MIDNIGHT == <<"2", "0", "2", "3", "0", "1", "0", "1", "T", "0", "0", "0", "0", "0", "0">>
V_GREGORIAN == <<"G", "R", "E", "G", "O", "R", "I", "A", "N">>
V_PUBLISH == <<"P", "U", "B", "L", "I", "S", "H">>
V_HOME == <<"H", "o", "m", "e">>
V_UTC == <<"U", "T", "C">>
V_CONFIRMED == <<"C", "O", "N", "F", "I", "R", "M", "E", "D">>
V_OPAQUE == <<"O", "P", "A", "Q", "U", "E">>
P_VALUE_DATE == <<";", "V", "A", "L", "U", "E", "=", "D", "A", "T", "E">>
GARBAGE == <<"g", "a", "r", "b", "a", "g", "e">>

V_WEEKLY == <<"W", "E", "E", "K", "L", "Y">>
V_DAILY == <<"D", "A", "I", "L", "Y">>
V_COUNT5 == <<"C", "O", "U", "N", "T", "=", "5">>
V_OFFSET == <<"+", "0", "1", "0", "0">>
V_MONTH13 == <<"2", "0", "2", "3", "1", "3", "0", "1", "T", "0", "0", "0", "0", "0", "0">>
SEMI == <<";">>

R_PRODID == KV(K_PRODID, V_PRODID)
R_VERSION == KV(K_VERSION, V_VERSION)
R_UID1 == KV(K_UID, V_1)
R_UID2 == KV(K_UID, V_2)
R_SUMMARY == KV(K_SUMMARY, V_TEST)
R_DTSTAMP_Z == KV(K_DTSTAMP, V_STAMP_Z)
R_DTSTAMP == KV(K_DTSTAMP, V_STAMP)
R_SEQ3 == KV(K_SEQUENCE, V_3)
R_SEQX == KV(K_SEQUENCE, V_X)
R_SEQNEG == KV(K_SEQUENCE, V_MINUS1)
R_SEQBIG == KV(K_SEQUENCE, V_2POW32)
R_DTSTART_DATE == KV(K_DTSTART \o P_VALUE_DATE, V_DATE)
R_DTSTART_Z == KV(K_DTSTART, V_MIDNIGHT_Z)
R_DTSTART == KV(K_DTSTART, V_MIDNIGHT)
R_EMPTY == <<>>
\* A malformed line that ends with CR LF in a text of LF-terminated lines.
R_GARBAGE_CR == GARBAGE \o <<CR>>

\* Recurrence rules: the frequency alone, with an end after it, with the
\* components the other way round, with another second component, and one
\* whose frequency token has the text of a date-time after its sixth character.
R_RRULE_WEEKLY == KV(K_RRULE, FREQ_EQ \o V_WEEKLY)
R_RRULE_WEEKLY_UNTIL == KV(K_RRULE, FREQ_EQ \o V_WEEKLY \o SEMI \o UNTIL_EQ \o V_MIDNIGHT)
R_RRULE_DAILY_UNTIL == KV(K_RRULE, FREQ_EQ \o V_DAILY \o SEMI \o UNTIL_EQ \o V_MIDNIGHT)
R_RRULE_UNTIL_FIRST == KV(K_RRULE, UNTIL_EQ \o V_MIDNIGHT \o SEMI \o FREQ_EQ \o V_DAILY)
R_RRULE_WEEKLY_COUNT == KV(K_RRULE, FREQ_EQ \o V_WEEKLY \o SEMI \o V_COUNT5)
R_RRULE_LONG_UNTIL ==
    KV(K_RRULE, FREQ_EQ \o V_WEEKLY \o V_STAMP \o SEMI \o UNTIL_EQ \o V_MIDNIGHT)

\* Records of the calendar-level keys.
R_CALSCALE == KV(K_CALSCALE, V_GREGORIAN)
R_METHOD == KV(K_METHOD, V_PUBLISH)
R_NAME == KV(K_NAME, V_HOME)
R_X_WR_CALNAME == KV(K_X_WR_CALNAME, V_HOME)
R_X_WR_TIMEZONE == KV(K_X_WR_TIMEZONE, V_UTC)

\* Date-time records of the optional fields, well formed and not.
R_DTEND == KV(K_DTEND, V_MIDNIGHT)
R_DTEND_BAD == KV(K_DTEND, V_X)
R_DTEND_Z == KV(K_DTEND, V_MIDNIGHT_Z)
R_DTEND_OFFSET == KV(K_DTEND, V_MIDNIGHT \o V_OFFSET)
R_CREATED == KV(K_CREATED, V_STAMP)
R_CREATED_BAD == KV(K_CREATED, V_MONTH13)
R_LAST_MODIFIED == KV(K_LAST_MODIFIED, V_STAMP)
R_LAST_MODIFIED_BAD == KV(K_LAST_MODIFIED, V_DATE)

\* The longest body of records drawn from a family's alphabet.
MaxRecs == 3

SeqsUpTo(S, n) == UNION {[1..k -> S] : k \in 0..n}

\* The end-to-end example of the documentation, record by record.
Example ==
    <<BEGIN_VCALENDAR, R_PRODID, R_VERSION, BEGIN_VEVENT, R_UID1, R_DTSTAMP_Z,
      R_SUMMARY, END_VEVENT, END_VCALENDAR>>

PreHeader == <<BEGIN_VCALENDAR, R_PRODID, R_VERSION>>
PreInEvent == PreHeader \o <<BEGIN_VEVENT>>
PreOneEvent == PreHeader \o <<BEGIN_VEVENT, R_UID1, END_VEVENT>>
PostCalendar == <<END_VCALENDAR>>
PostEvent == <<END_VEVENT, END_VCALENDAR>>

Terms == {"crlf", "lf", "mixed"}

\* A family of texts: a prefix, a body of at most MaxRecs records over an
\* alphabet, a suffix, and the line terminators used.
Family(pres, alpha, posts, terms) ==
    [pres |-> pres, alpha |-> alpha, posts |-> posts, terms |-> terms]

ExampleFamily == Family({Example}, {}, {<<>>}, Terms)

StructureFamily ==
    Family({<<>>, <<BEGIN_VCALENDAR>>, PreHeader, PreOneEvent},
           {BEGIN_VEVENT, END_VEVENT, END_VCALENDAR, R_PRODID, R_VERSION, R_UID2},
           {<<>>, PostCalendar}, Terms)

MalformedFamily ==
    Family({PreHeader, PreInEvent},
           {GARBAGE, R_GARBAGE_CR, R_EMPTY, BEGIN_VEVENT, END_VEVENT, R_UID1},
           {PostCalendar, PostEvent}, {"crlf", "mixed"})

FieldFamily ==
    Family({PreInEvent},
           {R_SEQ3, R_SEQX, R_SEQNEG, R_SEQBIG, R_DTSTART_DATE, R_DTSTART_Z,
            R_DTSTART, R_DTSTAMP, R_DTSTAMP_Z},
           {PostEvent}, {"crlf", "mixed"})

RRuleFamily ==
    Family({PreInEvent},
           {R_RRULE_WEEKLY, R_RRULE_WEEKLY_UNTIL, R_RRULE_DAILY_UNTIL,
            R_RRULE_UNTIL_FIRST, R_RRULE_WEEKLY_COUNT, R_RRULE_LONG_UNTIL},
           {PostEvent}, {"mixed"})

OptionalDateFamily ==
    Family({PreInEvent},
           {R_DTEND, R_DTEND_BAD, R_DTEND_Z, R_DTEND_OFFSET, R_CREATED, R_CREATED_BAD,
            R_LAST_MODIFIED, R_LAST_MODIFIED_BAD},
           {PostEvent}, {"mixed"})

\* Calendar-level records and an event-level one, in the calendar and in
\* an event.
HeaderKeyFamily ==
    Family({PreHeader, PreInEvent},
           {R_CALSCALE, R_METHOD, R_NAME, R_X_WR_CALNAME, R_X_WR_TIMEZONE, R_SUMMARY},
           {PostEvent}, {"mixed"})

Families ==
    {ExampleFamily, StructureFamily, MalformedFamily, FieldFamily, RRuleFamily,
     OptionalDateFamily, HeaderKeyFamily}

\* The terminator after record i of a text: "crlf" and "lf" use one
\* terminator throughout, "mixed" ends the first record with CR LF and
\* every other record with LF.
Terminator(term, i) ==
    IF term = "crlf" \/ (term = "mixed" /\ i = 1) THEN CRLF ELSE <<LF>>

RECURSIVE RenderFrom(_, _, _)
RenderFrom(recs, term, i) ==
    IF i > Len(recs) THEN <<>>
    ELSE recs[i] \o Terminator(term, i) \o RenderFrom(recs, term, i + 1)

Render(recs, term) == RenderFrom(recs, term, 1)

DT(y, m, d, H, M, S) ==
    [year |-> y, month |-> m, day |-> d, hour |-> H, minute |-> M, second |-> S]

\* Events with every field of the emission list present.
FullEvent(uid, seq) ==
    [empty EXCEPT !.dtstart = Some(DT(2023, 1, 1, 0, 0, 0)),
                  !.dtend = Some(DT(2023, 1, 2, 0, 0, 0)),
                  !.dtstamp = Some(DT(2019, 5, 22, 23, 27, 1)),
                  !.uid = Some(uid),
                  !.created = Some(DT(2019, 5, 22, 23, 27, 1)),
                  !.description = Some(V_TEST),
                  !.last_modified = Some(DT(2020, 2, 29, 12, 0, 59)),
                  !.location = Some(V_HOME),
                  !.sequence = Some(seq),
                  !.status = Some(V_CONFIRMED),
                  !.summary = Some(V_TEST),
                  !.transp = Some(V_OPAQUE)]

\* An event that lacks one of the fields the serializers unwrap.
PartialEvent == [FullEvent(V_3, 1) EXCEPT !.description = None]

SrcEvents == {FullEvent(V_1, 0), FullEvent(V_2, 12), PartialEvent}

\* The longest event sequence of a calendar handed to the serializer.
MaxEvents == 2

SrcCalendars ==
    {[name |-> None, prodid |-> V_PRODID, version |-> V_VERSION,
      calscale |-> cs, method |-> me, x_wr_calname |-> cn, x_wr_timezone |-> tz,
      events |-> es] :
        cs \in {None, Some(V_GREGORIAN)}, me \in {None, Some(V_PUBLISH)},
        cn \in {None, Some(V_HOME)}, tz \in {None, Some(V_UTC)},
        es \in SeqsUpTo(SrcEvents, MaxEvents)}

(***************************************************************************)
(* The state machine.  A run either parses a text (new_from_data), or      *)
(* serializes a calendar: with export_to, and then parses what was         *)
(* written, or with export_ics into a file.                                *)
(***************************************************************************)
VARIABLES
    input,   \* the text as records and terminator style, or the calendar to serialize
    sink,    \* the bytes export_to has written
    file,    \* the file of export_ics: None before File::create, then its content
    raw,     \* the text given to new_from_data
    pos,     \* the position of the Cursor
    pc,      \* "Export", "Exported", "Start", "InCalendar", "InEvent", "Done",
             \* "Error", "Abort"
    cal,     \* the locals of parse_cal: header fields and events
    ev,      \* the accumulator of parse_event
    result   \* what the call returned

vars == <<input, sink, file, raw, pos, pc, cal, ev, result>>

TextInput(recs, term) == [kind |-> "text", recs |-> recs, term |-> term, src |-> None]
CalendarInput(c) == [kind |-> "calendar", recs |-> <<>>, term |-> "crlf", src |-> Some(c)]

Init ==
    /\ \/ /\ \E f \in Families :
                \E pre \in f.pres, body \in SeqsUpTo(f.alpha, MaxRecs),
                   post \in f.posts, t \in f.terms :
                    input = TextInput(pre \o body \o post, t)
          /\ raw = Render(input.recs, input.term)
          /\ pc = "Start"
       \/ /\ \E c \in SrcCalendars : input = CalendarInput(c)
          /\ raw = <<>>
          /\ pc = "Export"
    /\ sink = <<>>
    /\ file = None
    /\ pos = 0
    /\ cal = NewBuilder
    /\ ev = empty
    /\ result = Pending

\* The parser state as the record the step functions work on.
State == [pc |-> pc, pos |-> pos, cal |-> cal, ev |-> ev, result |-> result]

Become(s) ==
    /\ pc' = s.pc
    /\ pos' = s.pos
    /\ cal' = s.cal
    /\ ev' = s.ev
    /\ result' = s.result

\* export_to on the calendar, then new_from_data on the bytes written; a
\* panic of export_to ends the run with the bytes written so far in the sink.
ExportTo ==
    /\ pc = "Export"
    /\ LET w == export_to(Unwrap(input.src))
       IN  /\ sink' = w.out
           /\ IF w.panic # ""
              THEN /\ pc' = "Abort"
                   /\ result' = Panic(w.panic)
                   /\ raw' = raw
              ELSE /\ pc' = "Start"
                   /\ result' = result
                   /\ raw' = w.out
    /\ UNCHANGED <<input, file, pos, cal, ev>>

\* export_ics on the calendar.  File::create comes before the text is built,
\* so a panic leaves the file created and empty; the file system is taken to
\* accept the create and the write.
ExportIcs ==
    /\ pc = "Export"
    /\ LET w == export_ics(Unwrap(input.src))
       IN  IF w.panic # ""
           THEN /\ file' = Some(<<>>)
                /\ pc' = "Abort"
                /\ result' = Panic(w.panic)
           ELSE /\ file' = Some(w.out)
                /\ pc' = "Exported"
                /\ result' = [tag |-> "Ok", cal |-> None, msg |-> "true"]
    /\ UNCHANGED <<input, sink, raw, pos, cal, ev>>

\* parse_cal up to its loop.
ParseFirst ==
    /\ pc = "Start"
    /\ Become(parse_cal_first(raw, State))
    /\ UNCHANGED <<input, sink, file, raw>>

\* One iteration of the loop of parse_cal.
ParseCalRecord ==
    /\ pc = "InCalendar"
    /\ Become(parse_cal_step(raw, State))
    /\ UNCHANGED <<input, sink, file, raw>>

\* One iteration of the loop of parse_event.
ParseEventRecord ==
    /\ pc = "InEvent"
    /\ Become(parse_event_step(raw, State))
    /\ UNCHANGED <<input, sink, file, raw>>

Next == ExportTo \/ ExportIcs \/ ParseFirst \/ ParseCalRecord \/ ParseEventRecord

Spec == Init /\ [][Next]_vars

Finished == pc \in {"Done", "Error", "Abort"}

(***************************************************************************)
(* The input as the specification reads it: records, the key of a record,  *)
(* and the Start / InCalendar / InEvent position of each record.           *)
(***************************************************************************)
IsText == input.kind = "text"

HasColon(rec) == IndexFrom(rec, ":", 1) # 0
Malformed(rec) == ~HasColon(rec)
KeyOf(rec) == SubSeq(rec, 1, IndexFrom(rec, ":", 1) - 1)
ValueOf(rec) == Suffix(rec, IndexFrom(rec, ":", 1) + 1)
BareKeyOf(rec) ==
    LET k == KeyOf(rec)
        i == IndexFrom(k, ";", 1)
    IN  IF i = 0 THEN k ELSE SubSeq(k, 1, i - 1)

\* Record i lies in an event block: a BEGIN:VEVENT before it is not yet
\* closed by an END:VEVENT.
InsideEvent(recs, i) ==
    \E b \in 1..(i - 1) :
        /\ recs[b] = BEGIN_VEVENT
        /\ \A j \in (b + 1)..(i - 1) : recs[j] # END_VEVENT

\* The positions of the END:VCALENDAR records read in InCalendar.
CalendarEnds(recs) ==
    {i \in 2..Len(recs) : recs[i] = END_VCALENDAR /\ ~InsideEvent(recs, i)}

\* A well-formed sequence of records: BEGIN:VCALENDAR first, END:VCALENDAR
\* last and nowhere else at calendar level, every record KEY:VALUE, event
\* blocks opened and closed in turn, and PRODID and VERSION exactly once,
\* at calendar level.
WellFormed(recs) ==
    /\ Len(recs) >= 2
    /\ recs[1] = BEGIN_VCALENDAR
    /\ CalendarEnds(recs) = {Len(recs)}
    /\ \A i \in 1..Len(recs) : HasColon(recs[i])
    /\ \A i \in 1..Len(recs) :
          /\ recs[i] = BEGIN_VEVENT => ~InsideEvent(recs, i)
          /\ recs[i] = END_VEVENT => InsideEvent(recs, i)
    /\ \A k \in {K_PRODID, K_VERSION} :
          /\ Cardinality({i \in 1..Len(recs) : KeyOf(recs[i]) = k}) = 1
          /\ \A i \in 1..Len(recs) : KeyOf(recs[i]) = k => ~InsideEvent(recs, i)

\* No CR and no LF in a string.
Clean(str) == \A i \in 1..Len(str) : str[i] \notin {CR, LF}
CleanOpt(o) == IsSome(o) => Clean(Unwrap(o))

StringFields ==
    {"uid", "description", "location", "organizer", "status", "summary",
     "transp", "class", "geo", "priority", "recur_id", "url"}

CleanCalendar(c) ==
    /\ Clean(c.prodid) /\ Clean(c.version)
    /\ CleanOpt(c.name) /\ CleanOpt(c.calscale) /\ CleanOpt(c.method)
    /\ CleanOpt(c.x_wr_calname) /\ CleanOpt(c.x_wr_timezone)
    /\ \A i \in 1..Len(c.events) :
          /\ \A f \in StringFields : CleanOpt(c.events[i][f])
          /\ IsSome(c.events[i].repeat) => Clean(Unwrap(c.events[i].repeat).freq)

(***************************************************************************)
(* C1.  Parsing the CRLF-terminated example text returns a Calendar with   *)
(* prodid "-//T//", version "2.0" and exactly one event, with uid "1",     *)
(* dtstamp 2019-05-22T23:27:01Z, summary "Test" and every other field      *)
(* absent.                                                                 *)
(***************************************************************************)
ExampleCalendar ==
    [name |-> None, prodid |-> V_PRODID, version |-> V_VERSION,
     calscale |-> None, method |-> None, x_wr_calname |-> None,
     x_wr_timezone |-> None,
     events |-> <<[empty EXCEPT !.uid = Some(V_1),
                                !.dtstamp = Some(DT(2019, 5, 22, 23, 27, 1)),
                                !.summary = Some(V_TEST)]>>]

C1_ExampleParses ==
    (IsText /\ input.recs = Example /\ input.term = "crlf" /\ Finished)
        => result = Ok(ExampleCalendar)

(***************************************************************************)
(* C2.  Round trip: a Calendar whose events all have every field of the    *)
(* emission list, serialized with export_to and parsed with new_from_data, *)
(* comes back with the same number of events, equal values of every field  *)
(* of the emission list in every event, and equal prodid and version.      *)
(***************************************************************************)
EmissionFields == {Emission[i].field : i \in 1..Len(Emission)}

AllPresent(c) ==
    \A i \in 1..Len(c.events) : \A f \in EmissionFields : IsSome(c.events[i][f])

SameEmitted(c, d) ==
    /\ c.prodid = d.prodid
    /\ c.version = d.version
    /\ Len(c.events) = Len(d.events)
    /\ \A i \in 1..Len(c.events) :
          \A f \in EmissionFields : c.events[i][f] = d.events[i][f]

C2_RoundTrip ==
    (input.kind = "calendar" /\ AllPresent(Unwrap(input.src)) /\ Finished)
        => /\ result.tag = "Ok"
           /\ SameEmitted(Unwrap(input.src), Unwrap(result.cal))

(***************************************************************************)
(* C3.  Line-terminator independence: for every well-formed sequence of    *)
(* records, the text ending each record with CR LF and the text ending     *)
(* each record with LF both parse successfully, to the same Calendar, and  *)
(* no stored value contains a CR or an LF.                                 *)
(***************************************************************************)
C3_TerminatorIndependent ==
    (IsText /\ WellFormed(input.recs) /\ Finished)
        => LET a == new_from_data(Render(input.recs, "crlf"))
               b == new_from_data(Render(input.recs, "lf"))
           IN  /\ a.tag = "Ok"
               /\ b.tag = "Ok"
               /\ a = b
               /\ CleanCalendar(Unwrap(a.cal))

(***************************************************************************)
(* C4.  When the first record is anything other than BEGIN:VCALENDAR (the  *)
(* empty input included), parse returns an error to the caller: it does    *)
(* not abort and returns no Calendar.                                      *)
(***************************************************************************)
C4_BadStartIsError ==
    (IsText /\ (Len(input.recs) = 0 \/ input.recs[1] # BEGIN_VCALENDAR) /\ Finished)
        => result.tag = "Err"

(***************************************************************************)
(* C5.  When the first record is BEGIN:VCALENDAR and the records run out   *)
(* before an END:VCALENDAR is read in InCalendar (in InCalendar or inside  *)
(* an unterminated event block), parse returns the error unexpected end of *)
(* input: no Calendar, no abort.                                           *)
(***************************************************************************)
C5_EofIsError ==
    (/\ IsText
     /\ Len(input.recs) >= 1
     /\ input.recs[1] = BEGIN_VCALENDAR
     /\ CalendarEnds(input.recs) = {}
     /\ Finished)
        => result = Err("UnexpectedEof")

(***************************************************************************)
(* C6.  parse is total: every input ends in a Calendar whose prodid and    *)
(* version come from records of the input, or in an error value; never in  *)
(* an abort (a missing or repeated PRODID or VERSION included).            *)
(***************************************************************************)
FromRecord(recs, key, value) ==
    \E i \in 1..Len(recs) :
        HasColon(recs[i]) /\ KeyOf(recs[i]) = key /\ ValueOf(recs[i]) = value

C6_TotalNoAbort ==
    (IsText /\ Finished)
        => /\ result.tag \in {"Ok", "Err"}
           /\ result.tag = "Ok" =>
                 /\ FromRecord(input.recs, K_PRODID, Unwrap(result.cal).prodid)
                 /\ FromRecord(input.recs, K_VERSION, Unwrap(result.cal).version)

(***************************************************************************)
(* C7.  In an event, a SEQUENCE record whose value is an unsigned 32-bit   *)
(* decimal integer n sets sequence to n; any other value makes parse       *)
(* return an error to the caller (no default, no abort).                   *)
(***************************************************************************)
\* The record the next read of the parser yields.
NextBuf == pop(read_line(raw, pos))

C7_SequenceStep ==
    [][(pc = "InEvent" /\ HasColon(NextBuf) /\ BareKeyOf(NextBuf) = K_SEQUENCE)
          => IF parse_u32(ValueOf(NextBuf)).ok
             THEN /\ pc' = "InEvent"
                  /\ ev'.sequence = Some(parse_u32(ValueOf(NextBuf)).val)
             ELSE /\ pc' = "Error"
                  /\ result'.tag = "Err"]_vars

(***************************************************************************)
(* C8.  Malformed lines (records without a colon) never change the         *)
(* outcome: when the input without them parses successfully, the input     *)
(* with them parses to the same Calendar, and the number of events is the  *)
(* number of BEGIN:VEVENT / END:VEVENT pairs.                              *)
(***************************************************************************)
\* The records without the malformed ones after the first record.
Strip(recs) ==
    IF Len(recs) = 0 THEN recs
    ELSE <<recs[1]>> \o SelectSeq(Tail(recs), HasColon)

MalformedAt(recs) == {i \in 2..Len(recs) : Malformed(recs[i])}

\* The first END:VCALENDAR read in InCalendar.
CalEnd(recs) ==
    CHOOSE i \in CalendarEnds(recs) : \A j \in CalendarEnds(recs) : i <= j

\* The END:VEVENT records that close an event block of the calendar.
EventPairs(recs) ==
    {i \in 1..CalEnd(recs) : recs[i] = END_VEVENT /\ InsideEvent(recs, i)}

C8_MalformedIgnored ==
    (IsText /\ Finished)
        => LET base == new_from_data(Render(Strip(input.recs), input.term))
           IN  base.tag = "Ok" =>
                  /\ result = base
                  /\ Len(Unwrap(result.cal).events)
                        = Cardinality(EventPairs(input.recs))

C8_Witness ==
    /\ IsText
    /\ pc = "Done"
    /\ Len(Unwrap(result.cal).events) = 1
    /\ \E i, j \in MalformedAt(input.recs) :
          /\ i < CalEnd(input.recs) /\ j < CalEnd(input.recs)
          /\ ~InsideEvent(input.recs, i)
          /\ InsideEvent(input.recs, j)

(***************************************************************************)
(* C9.  Event order is input order: the i-th event of the returned         *)
(* Calendar is the event built from the records of the i-th BEGIN:VEVENT   *)
(* block of the input; none is reordered, duplicated or dropped.           *)
(***************************************************************************)
\* The BEGIN:VEVENT records that open a block of the calendar.
BlockStarts(recs) ==
    {i \in 2..CalEnd(recs) : recs[i] = BEGIN_VEVENT /\ ~InsideEvent(recs, i)}

Nth(S, n) == CHOOSE i \in S : Cardinality({j \in S : j <= i}) = n

\* The event the records from i up to the next END:VEVENT build on e.
RECURSIVE BlockEvent(_, _, _)
BlockEvent(recs, i, e) ==
    IF recs[i] = END_VEVENT THEN e
    ELSE BlockEvent(recs, i + 1,
             IF HasColon(recs[i])
             THEN event_match(e, BareKeyOf(recs[i]), ValueOf(recs[i])).ev
             ELSE e)

C9_EventOrder ==
    (IsText /\ pc = "Done")
        => LET starts == BlockStarts(input.recs)
               events == Unwrap(result.cal).events
           IN  /\ Len(events) = Cardinality(starts)
               /\ \A n \in 1..Len(events) :
                     events[n] = BlockEvent(input.recs, Nth(starts, n) + 1, empty)

C9_Witness ==
    /\ IsText
    /\ pc = "Done"
    /\ Len(Unwrap(result.cal).events) = 2
    /\ Unwrap(result.cal).events[1].uid = Some(V_1)
    /\ Unwrap(result.cal).events[2].uid = Some(V_2)

(***************************************************************************)
(* C10.  In an event, the record DTSTART;VALUE=DATE:20230101 sets dtstart  *)
(* to 2023-01-01T00:00:00Z, the dtstart that DTSTART:20230101T000000Z      *)
(* gives.                                                                  *)
(***************************************************************************)
C10_DateOnlyStart ==
    [][(pc = "InEvent" /\ NextBuf = R_DTSTART_DATE)
          => /\ ev'.dtstart = Some(DT(2023, 1, 1, 0, 0, 0))
             /\ ev'.dtstart = event_match(ev, K_DTSTART, V_MIDNIGHT_Z).ev.dtstart]_vars

(***************************************************************************)
(* C11.  The date-time converter, as the dispatcher uses it for DTSTART,   *)
(* DTEND, DTSTAMP, CREATED and LAST-MODIFIED, accepts YYYYMMDDTHHMMSS with *)
(* and without a trailing Z and yields the same instant for both; a value  *)
(* with any other suffix is a parse failure (the field keeps its value).   *)
(***************************************************************************)
DateKeys == {K_DTSTART, K_DTEND, K_DTSTAMP, K_CREATED, K_LAST_MODIFIED}

DateFieldOf(key) ==
    CASE key = K_DTSTART -> "dtstart"
      [] key = K_DTEND -> "dtend"
      [] key = K_DTSTAMP -> "dtstamp"
      [] key = K_CREATED -> "created"
      [] key = K_LAST_MODIFIED -> "last_modified"

\* The first characters of a value, as many as YYYYMMDDTHHMMSS has, and the rest.
StampOf(value) == SubSeq(value, 1, Len(V_STAMP))
SuffixOf(value) == Suffix(value, Len(V_STAMP) + 1)

C11_TrailingZ ==
    [][(pc = "InEvent" /\ HasColon(NextBuf) /\ BareKeyOf(NextBuf) \in DateKeys)
          => LET value == ValueOf(NextBuf)
                 field == DateFieldOf(BareKeyOf(NextBuf))
             IN  IF /\ Len(value) >= Len(V_STAMP)
                    /\ convert_datetime(StampOf(value), FmtParse).ok
                    /\ SuffixOf(value) \in {<<>>, <<"Z">>}
                 THEN ev'[field] = Some(convert_datetime(StampOf(value), FmtParse).val)
                 ELSE ev'[field] = ev[field]]_vars

(***************************************************************************)
(* C12.  In an event, an RRULE whose first component is FREQ=<token> and   *)
(* whose second component is UNTIL=<datetime> gives repeat the frequency   *)
(* <token> and as until the instant decoded from the text after UNTIL= of  *)
(* the second component, or no until when that text does not decode; the   *)
(* parse goes on with the next record, for every token, DAILY included.    *)
(***************************************************************************)
IsRRule(rec) == HasColon(rec) /\ BareKeyOf(rec) = K_RRULE
Components(rec) == split_semi(ValueOf(rec))
FreqFirst(rec) == starts_with(Components(rec)[1], FREQ_EQ)
TokenOf(rec) == Suffix(Components(rec)[1], Len(FREQ_EQ) + 1)
UntilSecond(rec) ==
    Len(Components(rec)) >= 2 /\ starts_with(Components(rec)[2], UNTIL_EQ)
UntilTextOf(rec) == Suffix(Components(rec)[2], Len(UNTIL_EQ) + 1)

C12_UntilBound ==
    [][(pc = "InEvent" /\ IsRRule(NextBuf) /\ FreqFirst(NextBuf) /\ UntilSecond(NextBuf))
          => LET r == convert_datetime(UntilTextOf(NextBuf), FmtParse)
             IN  /\ pc' = "InEvent"
                 /\ ev'.repeat = Some(Repeat(TokenOf(NextBuf),
                                             IF r.ok THEN Some(r.val) ELSE None))]_vars

(***************************************************************************)
(* C13.  In an event, an RRULE whose first component is FREQ=<token> sets  *)
(* the frequency of repeat to <token>, with no until when there is no      *)
(* second component; an RRULE whose first component does not start with    *)
(* FREQ= is discarded whole: repeat is left unchanged, an UNTIL= component *)
(* is not used, and the parse goes on with the next record.                *)
(***************************************************************************)
C13_FirstComponent ==
    [][(pc = "InEvent" /\ IsRRule(NextBuf))
          => /\ pc' = "InEvent"
             /\ IF FreqFirst(NextBuf)
                THEN /\ IsSome(ev'.repeat)
                     /\ Unwrap(ev'.repeat).freq = TokenOf(NextBuf)
                     /\ Len(Components(NextBuf)) = 1 => Unwrap(ev'.repeat).until = None
                ELSE ev'.repeat = ev.repeat]_vars

(***************************************************************************)
(* C14.  Every line the serializer emits, the final END:VCALENDAR line     *)
(* included, is terminated by CR LF: the output of export_to and the file  *)
(* of export_ics end with CR LF and have no CR and no LF outside such a    *)
(* pair, for every Calendar, with or without events.                       *)
(***************************************************************************)
IsCalendarInput == input.kind = "calendar"

CrlfTerminated(text) ==
    /\ Len(text) >= Len(CRLF)
    /\ Suffix(text, Len(text) - Len(CRLF) + 1) = CRLF
    /\ \A i \in 1..Len(text) :
          /\ text[i] = LF => (i > 1 /\ text[i - 1] = CR)
          /\ text[i] = CR => (i < Len(text) /\ text[i + 1] = LF)

C14_CrlfEveryLine ==
    (IsCalendarInput /\ AllPresent(Unwrap(input.src)))
        => /\ pc \in {"Start", "InCalendar", "InEvent", "Done", "Error"}
                 => CrlfTerminated(sink)
           /\ pc = "Exported" => CrlfTerminated(Unwrap(file))

(***************************************************************************)
(* C15.  For every Calendar whose events have all fields of the emission   *)
(* list, the output of export_to is exactly the lines BEGIN:VCALENDAR,     *)
(* PRODID, CALSCALE if present, VERSION, METHOD if present, X-WR-CALNAME   *)
(* if present, X-WR-TIMEZONE if present, then for each event in sequence   *)
(* order BEGIN:VEVENT, DTSTART, DTEND, DTSTAMP, UID, CREATED, DESCRIPTION, *)
(* LAST-MODIFIED, LOCATION, SEQUENCE, STATUS, SUMMARY, TRANSP, END:VEVENT, *)
(* and at last END:VCALENDAR; no other line is written.                    *)
(***************************************************************************)
\* The lines of a text, without their CR LF.
RECURSIVE LinesOf(_)
LinesOf(text) ==
    IF text = <<>> THEN <<>>
    ELSE LET i == IndexFrom(text, LF, 1)
             line == IF i = 0 THEN text ELSE SubSeq(text, 1, i - 1)
             bare == IF line # <<>> /\ line[Len(line)] = CR
                     THEN SubSeq(line, 1, Len(line) - 1) ELSE line
         IN  IF i = 0 THEN <<bare>> ELSE <<bare>> \o LinesOf(Suffix(text, i + 1))

Markers == {BEGIN_VCALENDAR, BEGIN_VEVENT, END_VEVENT, END_VCALENDAR}
KindOf(line) == IF line \in Markers \/ ~HasColon(line) THEN line ELSE KeyOf(line)
KindsOf(text) ==
    LET lines == LinesOf(text)
    IN  [i \in 1..Len(lines) |-> KindOf(lines[i])]

IfPresent(o, key) == IF IsSome(o) THEN <<key>> ELSE <<>>

HeaderKinds(c) ==
    <<BEGIN_VCALENDAR, K_PRODID>> \o IfPresent(c.calscale, K_CALSCALE)
    \o <<K_VERSION>> \o IfPresent(c.method, K_METHOD)
    \o IfPresent(c.x_wr_calname, K_X_WR_CALNAME)
    \o IfPresent(c.x_wr_timezone, K_X_WR_TIMEZONE)

EventKinds ==
    <<BEGIN_VEVENT, K_DTSTART, K_DTEND, K_DTSTAMP, K_UID, K_CREATED, K_DESCRIPTION,
      K_LAST_MODIFIED, K_LOCATION, K_SEQUENCE, K_STATUS, K_SUMMARY, K_TRANSP,
      END_VEVENT>>

RECURSIVE Times(_, _)
Times(s, n) == IF n = 0 THEN <<>> ELSE s \o Times(s, n - 1)

ExpectedKinds(c) ==
    HeaderKinds(c) \o Times(EventKinds, Len(c.events)) \o <<END_VCALENDAR>>

IsUidLine(line) == HasColon(line) /\ KeyOf(line) = K_UID
UidValues(text) ==
    LET uids == SelectSeq(LinesOf(text), IsUidLine)
    IN  [i \in 1..Len(uids) |-> ValueOf(uids[i])]

\* export_to has returned Ok and the sink holds what it wrote.
ExportToReturned == IsCalendarInput /\ pc = "Start"

C15_EmissionOrder ==
    (ExportToReturned /\ AllPresent(Unwrap(input.src)))
        => LET c == Unwrap(input.src)
           IN  /\ KindsOf(sink) = ExpectedKinds(c)
               /\ UidValues(sink) = [i \in 1..Len(c.events) |-> Unwrap(c.events[i].uid)]
               /\ ValueOf(LinesOf(sink)[2]) = c.prodid

C15_Witness ==
    /\ ExportToReturned
    /\ LET c == Unwrap(input.src)
       IN  /\ AllPresent(c)
           /\ IsSome(c.calscale) /\ ~IsSome(c.method) /\ IsSome(c.x_wr_timezone)
           /\ Len(c.events) = 2
           /\ c.events[1].uid # c.events[2].uid
           /\ Len(LinesOf(sink)) = Len(ExpectedKinds(c))

(***************************************************************************)
(* C16.  When an event of the Calendar lacks a field of the emission list, *)
(* export_to and export_ics return a structured error: the call does not   *)
(* abort the process.                                                      *)
(***************************************************************************)
C16_MissingFieldIsError ==
    (IsCalendarInput /\ ~AllPresent(Unwrap(input.src)) /\ pc # "Export")
        => /\ pc # "Abort"
           /\ result.tag = "Err"

(***************************************************************************)
(* C17.  Every Event of a Calendar returned by the parse has a uid and a   *)
(* dtstamp, and a dtstart unless the Calendar declares a method: an event  *)
(* block that reaches END:VEVENT without them is not accepted into the     *)
(* returned Calendar.                                                      *)
(***************************************************************************)
\* Event::check_consistency, which no code path of the parser calls.
check_consistency(e, cal_has_method) ==
    IsSome(e.dtstamp) /\ IsSome(e.uid) /\ (cal_has_method \/ IsSome(e.dtstart))

C17_EventInvariant ==
    (IsText /\ result.tag = "Ok")
        => LET c == Unwrap(result.cal)
           IN  \A i \in 1..Len(c.events) : check_consistency(c.events[i], IsSome(c.method))

(***************************************************************************)
(* C18.  In an event, a DTEND, CREATED or LAST-MODIFIED record whose value *)
(* fails to decode leaves that field as it was before the record (absent,  *)
(* or the value decoded earlier) and every other field unchanged, and the  *)
(* parse goes on with the next record; the event is appended at            *)
(* END:VEVENT all the same.                                                *)
(***************************************************************************)
OptionalDateKeys == {K_DTEND, K_CREATED, K_LAST_MODIFIED}

FailsToDecode(rec) ==
    /\ HasColon(rec)
    /\ BareKeyOf(rec) \in OptionalDateKeys
    /\ ~convert_datetime(ValueOf(rec), FmtParse).ok

C18_BestEffortDates ==
    [][pc = "InEvent"
          => /\ FailsToDecode(NextBuf)
                   => /\ ev' = ev
                      /\ cal' = cal
                      /\ pc' = "InEvent"
                      /\ pos' = pos + Len(read_line(raw, pos))
             /\ NextBuf = END_VEVENT
                   => /\ cal'.events = Append(cal.events, ev)
                      /\ pc' = "InCalendar"]_vars

\* A returned event whose DTEND was decoded and then followed by records
\* that fail to decode.
C18_Witness ==
    /\ IsText
    /\ pc = "Done"
    /\ \E i, j, k \in 1..Len(input.recs) :
          /\ i < j
          /\ input.recs[i] = R_DTEND
          /\ input.recs[j] = R_DTEND_BAD
          /\ input.recs[k] = R_CREATED_BAD
    /\ Len(cal.events) = 1
    /\ cal.events[1].dtend = Some(DT(2023, 1, 1, 0, 0, 0))
    /\ cal.events[1].created = None

(***************************************************************************)
(* C19.  Trailing input is ignored: once END:VCALENDAR is consumed in the  *)
(* InCalendar state the parser is done and reads no further record; for a  *)
(* text T that ends with that END:VCALENDAR record and any suffix S, the   *)
(* parse of T followed by S returns the same Calendar as the parse of T.   *)
(***************************************************************************)
\* The input up to its first END:VCALENDAR at calendar level, and the rest.
UpToCalEnd(recs) == SubSeq(recs, 1, CalEnd(recs))
Trailing(recs) == SubSeq(recs, CalEnd(recs) + 1, Len(recs))

C19_TrailingIgnored ==
    (IsText /\ Finished /\ CalendarEnds(input.recs) # {})
        => LET T == Render(UpToCalEnd(input.recs), input.term)
           IN  new_from_data(T).tag = "Ok"
                  => /\ pc = "Done"
                     /\ result = new_from_data(T)
                     /\ pos = Len(T)

\* A returned Calendar with records left unread that would have changed
\* the outcome had they been read.
C19_Witness ==
    /\ IsText
    /\ pc = "Done"
    /\ CalendarEnds(input.recs) # {}
    /\ Len(Trailing(input.recs)) >= 2
    /\ Trailing(input.recs)[1] = R_PRODID
    /\ pos < Len(raw)
    /\ result = new_from_data(Render(UpToCalEnd(input.recs), input.term))

(***************************************************************************)
(* C20.  Event accumulator lifecycle: at every point of a parse the number *)
(* of events of the calendar is the number of END:VEVENT records consumed  *)
(* so far in the InEvent state; a BEGIN:VEVENT consumed in InCalendar      *)
(* starts an accumulator with every field absent; an accumulator is        *)
(* appended exactly once, at its END:VEVENT, and never when the input ends *)
(* before it.                                                              *)
(***************************************************************************)
\* The records the parser has read so far, as it sees them after pop.
RECURSIVE ConsumedFrom(_, _, _)
ConsumedFrom(text, from, upto) ==
    LET line == read_line(text, from)
    IN  IF from >= upto \/ Len(line) = 0 THEN <<>>
        ELSE <<pop(line)>> \o ConsumedFrom(text, from + Len(line), upto)

Consumed == ConsumedFrom(raw, 0, pos)

EventEndsIn(bufs) ==
    {i \in 1..Len(bufs) : bufs[i] = END_VEVENT /\ InsideEvent(bufs, i)}

\* The events are as many as the END:VEVENT records read in InEvent among
\* the first p characters of the text.
EventCountMatches(text, p, events) ==
    LET bufs == ConsumedFrom(text, 0, p)
    IN  Len(events) = Cardinality(EventEndsIn(bufs))

AllAbsent(e) == \A f \in DOMAIN e : e[f] = None

C20_AccumulatorLifecycle ==
    [][/\ pos = 0 => EventCountMatches(raw, pos, cal.events)
       /\ EventCountMatches(raw', pos', cal'.events)
       /\ (pc = "InCalendar" /\ NextBuf = BEGIN_VEVENT)
             => /\ pc' = "InEvent"
                /\ AllAbsent(ev')
                /\ cal'.events = cal.events
       /\ IF pc = "InEvent" /\ NextBuf = END_VEVENT
          THEN /\ pc' = "InCalendar"
               /\ cal'.events = Append(cal.events, ev)
          ELSE cal'.events = cal.events
       /\ (pc = "InEvent" /\ Len(read_line(raw, pos)) = 0)
             => /\ pc' = "Error"
                /\ result'.tag = "Err"]_vars

\* Two events returned, the first with a uid and the second, begun after
\* it, without one.
C20_Witness ==
    /\ IsText
    /\ pc = "Done"
    /\ Len(cal.events) = 2
    /\ Cardinality(EventEndsIn(Consumed)) = 2
    /\ IsSome(cal.events[1].uid)
    /\ AllAbsent(cal.events[2])

(***************************************************************************)
(* C21.  The dispatcher takes only the transitions Start to InCalendar,    *)
(* InCalendar to InEvent, InEvent to InCalendar and InCalendar to Done (a  *)
(* failure ends the parse from any of them): a Calendar is returned only   *)
(* when END:VCALENDAR is consumed in InCalendar; in InEvent an             *)
(* END:VCALENDAR record does not finish the parse, a BEGIN:VEVENT record   *)
(* opens no nested or second event, and the calendar-level keys leave      *)
(* every header field unchanged; in InCalendar the event-level keys and an *)
(* END:VEVENT record change neither the header fields nor the events.      *)
(***************************************************************************)
DispatcherStates == {"Start", "InCalendar", "InEvent"}
Failures == {"Error", "Abort"}

Transitions ==
    {<<"Start", "InCalendar">>, <<"InCalendar", "InEvent">>,
     <<"InEvent", "InCalendar">>, <<"InCalendar", "Done">>}
    \cup (DispatcherStates \X Failures)

CalendarKeys ==
    {K_PRODID, K_VERSION, K_CALSCALE, K_METHOD, K_NAME, K_X_WR_CALNAME,
     K_X_WR_TIMEZONE}

EventKeys ==
    {K_CLASS, K_GEO, K_PRIORITY, K_RECUR_ID, K_URL, K_UID, K_DESCRIPTION,
     K_LOCATION, K_SEQUENCE, K_STATUS, K_SUMMARY, K_TRANSP, K_ORGANIZER, K_RRULE,
     K_DTSTART, K_DTEND, K_DTSTAMP, K_CREATED, K_LAST_MODIFIED}

HasKeyIn(rec, keys) == HasColon(rec) /\ BareKeyOf(rec) \in keys

C21_Transitions ==
    [][/\ (pc \in DispatcherStates /\ pc' # pc) => <<pc, pc'>> \in Transitions
       /\ (pc' = "Done" \/ result'.tag = "Ok") /\ pc \in DispatcherStates
             => /\ pc = "InCalendar"
                /\ NextBuf = END_VCALENDAR
                /\ pc' = "Done"
                /\ result' = Ok(Calendar(cal))
       /\ (pc = "InEvent" /\ NextBuf = END_VCALENDAR)
             => pc' = "InEvent" /\ cal' = cal /\ ev' = ev /\ result' = result
       /\ (pc = "InEvent" /\ NextBuf = BEGIN_VEVENT)
             => pc' = "InEvent" /\ cal' = cal /\ ev' = ev
       /\ (pc = "InEvent" /\ HasKeyIn(NextBuf, CalendarKeys))
             => pc' = "InEvent" /\ cal' = cal
       /\ (pc = "InCalendar" /\ (NextBuf = END_VEVENT \/ HasKeyIn(NextBuf, EventKeys)))
             => pc' = "InCalendar" /\ cal' = cal]_vars

\* A returned Calendar whose text has a METHOD record inside its event:
\* the Calendar declares no method.
C21_Witness ==
    /\ IsText
    /\ pc = "Done"
    /\ \E i \in 1..Len(input.recs) :
          input.recs[i] = R_METHOD /\ InsideEvent(input.recs, i)
    /\ result.tag = "Ok"
    /\ Unwrap(result.cal).method = None
    /\ Len(Unwrap(result.cal).events) = 1

(***************************************************************************)
(* C22.  The two serializers agree: for every Calendar whose events have   *)
(* all fields of the emission list, with calscale, method, x_wr_calname    *)
(* and x_wr_timezone each present or absent and with zero or more events,  *)
(* the bytes export_to writes to its sink are the bytes export_ics writes  *)
(* to its file.                                                            *)
(***************************************************************************)
C22_SerializersAgree ==
    (IsCalendarInput /\ AllPresent(Unwrap(input.src)))
        => /\ pc = "Exported"
                 => /\ IsSome(file)
                    /\ export_to(Unwrap(input.src)).panic = ""
                    /\ Unwrap(file) = export_to(Unwrap(input.src)).out
           /\ ExportToReturned
                 => /\ export_ics(Unwrap(input.src)).panic = ""
                    /\ sink = export_ics(Unwrap(input.src)).out

\* A file written by export_ics for a calendar with two events, some
\* optional header fields present and some absent.
C22_Witness ==
    /\ IsCalendarInput
    /\ pc = "Exported"
    /\ LET c == Unwrap(input.src)
       IN  /\ AllPresent(c)
           /\ Len(c.events) = 2
           /\ IsSome(c.calscale) /\ ~IsSome(c.method)
           /\ ~IsSome(c.x_wr_calname) /\ IsSome(c.x_wr_timezone)
    /\ IsSome(file)
    /\ Len(LinesOf(Unwrap(file))) > Len(EventKinds) + Len(EventKinds)

====
